---- MODULE Spec2Model ----
(***************************************************************************)
(* Model of the governance ledger of src/src/governance.rs:                *)
(* GovernancePallet with its proposals map, votes map and                  *)
(* next_proposal_id counter, and the operations create_proposal, vote,     *)
(* finalize_proposal, get_proposal and get_proposal_details.               *)
(*                                                                         *)
(* The three u32 fields (next_proposal_id, yes_votes, no_votes) keep a     *)
(* fixed width, scaled from 32 bits to U32Bits bits.  `+= 1` on a u32      *)
(* panics when the build has overflow checks (debug profile) and wraps     *)
(* when it has none (release profile); the build is chosen in Init.        *)
(***************************************************************************)
EXTENDS Integers, Sequences, FiniteSets, TLC

\* ---- bounds of the model ------------------------------------------------
\* create_proposal calls made on one ledger (bounds create_log)
MaxCreates == 3

\* ---- program constants --------------------------------------------------
\* width of u32, scaled down from 32 (yes_votes, no_votes and
\* next_proposal_id are declared u32)
U32Bits == 1

U32Max == (2 ^ U32Bits) - 1
U32 == 0 .. U32Max

\* the accounts of the test
alice == 1
bob == 2
Accounts == {alice, bob}

Descriptions == {"Increase validator rewards", "Lower validator rewards"}

Active == "Active"
Approved == "Approved"
Rejected == "Rejected"
ProposalStatus == {Active, Approved, Rejected}

ProposalNotFound == "Proposal does not exist"
ProposalNotActive == "Proposal is not active"
AlreadyVoted == "Voter has already voted"

VARIABLES
    proposals,          \* HashMap<u32, Proposal<T>>
    votes,              \* HashMap<(AccountId, u32), bool>
    next_proposal_id,   \* u32
    overflow_checks,    \* build profile: TRUE = `+= 1` panics on overflow
    panicked,           \* the calling thread has panicked
    lastCall,           \* the last call made and what it returned
    create_log,         \* ids returned by the create_proposal calls, in order
    vote_ok_count,      \* per id: number of vote calls that returned Ok
    finalize_ok_count   \* per id: number of finalize_proposal calls that returned Ok

vars == <<proposals, votes, next_proposal_id, overflow_checks, panicked,
          lastCall, create_log, vote_ok_count, finalize_ok_count>>

ledger == <<proposals, votes, next_proposal_id>>

\* HashMap::insert: adds the key or replaces the value stored under it
MapInsert(m, k, v) == [x \in (DOMAIN m) \cup {k} |-> IF x = k THEN v ELSE m[x]]

EmptyMap == [x \in {} |-> 0]

\* the value `x += 1` stores when the build has no overflow checks
WrappingInc(x) == (x + 1) % (2 ^ U32Bits)

\* `x += 1` overflows
IncOverflows(x) == x + 1 > U32Max

NoCall == [op |-> "none"]

Init ==
    /\ proposals = EmptyMap
    /\ votes = EmptyMap
    /\ next_proposal_id = 0
    /\ overflow_checks \in BOOLEAN
    /\ panicked = FALSE
    /\ lastCall = NoCall
    /\ create_log = <<>>
    /\ vote_ok_count = [p \in U32 |-> 0]
    /\ finalize_ok_count = [p \in U32 |-> 0]

NewProposal(creator, description) ==
    [description |-> description, yes_votes |-> 0, no_votes |-> 0,
     status |-> Active, creator |-> creator]

create_proposal(creator, description) ==
    /\ ~panicked
    /\ Len(create_log) < MaxCreates
    /\ LET proposal_id == next_proposal_id
       IN IF IncOverflows(next_proposal_id) /\ overflow_checks
          THEN \* line 44 panics before anything is stored
               /\ panicked' = TRUE
               /\ lastCall' = [op |-> "create_proposal", creator |-> creator,
                               description |-> description, outcome |-> "Panic"]
               /\ UNCHANGED <<proposals, votes, next_proposal_id, create_log>>
          ELSE /\ next_proposal_id' = WrappingInc(next_proposal_id)
               /\ proposals' = MapInsert(proposals, proposal_id,
                                         NewProposal(creator, description))
               /\ lastCall' = [op |-> "create_proposal", creator |-> creator,
                               description |-> description,
                               outcome |-> "Ok", id |-> proposal_id]
               /\ create_log' = Append(create_log, proposal_id)
               /\ UNCHANGED <<votes, panicked>>
    /\ UNCHANGED <<overflow_checks, vote_ok_count, finalize_ok_count>>

\* VoteCheck without the duplicate-vote check of lines 71-73
VoteCheck_NoDupCheck(voter, proposal_id) ==
    IF proposal_id \in DOMAIN proposals
    THEN IF proposals[proposal_id].status # Active
         THEN ProposalNotActive
         ELSE "Ok"
    ELSE ProposalNotFound

\* VoteCheck with the duplicate-vote check made before the status check
VoteCheck_DupFirst(voter, proposal_id) ==
    IF proposal_id \in DOMAIN proposals
    THEN IF <<voter, proposal_id>> \in DOMAIN votes
         THEN AlreadyVoted
         ELSE IF proposals[proposal_id].status # Active
              THEN ProposalNotActive
              ELSE "Ok"
    ELSE ProposalNotFound

\* VoteCheck without the status check of lines 67-69
VoteCheck_NoStatusCheck(voter, proposal_id) ==
    IF proposal_id \in DOMAIN proposals
    THEN IF <<voter, proposal_id>> \in DOMAIN votes
         THEN AlreadyVoted
         ELSE "Ok"
    ELSE ProposalNotFound

\* the checks of vote, in the order the code makes them (lines 66-73);
\* "Ok" when all of them pass
VoteCheck(voter, proposal_id) ==
    IF proposal_id \in DOMAIN proposals
    THEN IF proposals[proposal_id].status # Active
         THEN ProposalNotActive
         ELSE IF <<voter, proposal_id>> \in DOMAIN votes
              THEN AlreadyVoted
              ELSE "Ok"
    ELSE ProposalNotFound

\* vote with the record inserted (line 75) before the checks of lines 67-73
vote_InsertsBeforeChecks(voter, proposal_id, vote_type) ==
    /\ ~panicked
    /\ LET check == VoteCheck(voter, proposal_id)
           counter == IF vote_type THEN proposals[proposal_id].yes_votes
                                   ELSE proposals[proposal_id].no_votes
       IN IF check = ProposalNotFound
          THEN /\ lastCall' = [op |-> "vote", voter |-> voter,
                               proposal_id |-> proposal_id, vote_type |-> vote_type,
                               outcome |-> "Err", err |-> check]
               /\ UNCHANGED <<proposals, votes, panicked, vote_ok_count>>
          ELSE /\ votes' = MapInsert(votes, <<voter, proposal_id>>, vote_type)
               /\ IF check # "Ok"
                  THEN /\ lastCall' = [op |-> "vote", voter |-> voter,
                                       proposal_id |-> proposal_id,
                                       vote_type |-> vote_type,
                                       outcome |-> "Err", err |-> check]
                       /\ UNCHANGED <<proposals, panicked, vote_ok_count>>
                  ELSE IF IncOverflows(counter) /\ overflow_checks
                  THEN /\ panicked' = TRUE
                       /\ lastCall' = [op |-> "vote", voter |-> voter,
                                       proposal_id |-> proposal_id,
                                       vote_type |-> vote_type, outcome |-> "Panic"]
                       /\ UNCHANGED <<proposals, vote_ok_count>>
                  ELSE /\ proposals' =
                            IF vote_type
                            THEN [proposals EXCEPT ![proposal_id].yes_votes =
                                                        WrappingInc(@)]
                            ELSE [proposals EXCEPT ![proposal_id].no_votes =
                                                        WrappingInc(@)]
                       /\ lastCall' = [op |-> "vote", voter |-> voter,
                                       proposal_id |-> proposal_id,
                                       vote_type |-> vote_type, outcome |-> "Ok"]
                       /\ vote_ok_count' = [vote_ok_count EXCEPT ![proposal_id] = @ + 1]
                       /\ UNCHANGED panicked
    /\ UNCHANGED <<next_proposal_id, overflow_checks, create_log, finalize_ok_count>>

vote(voter, proposal_id, vote_type) ==
    /\ ~panicked
    /\ LET check == VoteCheck(voter, proposal_id)
           call == [op |-> "vote", voter |-> voter, proposal_id |-> proposal_id,
                    vote_type |-> vote_type]
           counter == IF vote_type THEN proposals[proposal_id].yes_votes
                                   ELSE proposals[proposal_id].no_votes
       IN IF check # "Ok"
          THEN /\ lastCall' = [op |-> "vote", voter |-> voter,
                               proposal_id |-> proposal_id, vote_type |-> vote_type,
                               outcome |-> "Err", err |-> check]
               /\ UNCHANGED <<proposals, votes, panicked, vote_ok_count>>
          ELSE \* line 75: the record is inserted before the counter is touched
               /\ votes' = MapInsert(votes, <<voter, proposal_id>>, vote_type)
               /\ IF IncOverflows(counter) /\ overflow_checks
                  THEN \* line 78 or 80 panics, the record stays inserted
                       /\ panicked' = TRUE
                       /\ lastCall' = [op |-> "vote", voter |-> voter,
                                       proposal_id |-> proposal_id,
                                       vote_type |-> vote_type, outcome |-> "Panic"]
                       /\ UNCHANGED <<proposals, vote_ok_count>>
                  ELSE /\ proposals' =
                            IF vote_type
                            THEN [proposals EXCEPT ![proposal_id].yes_votes =
                                                        WrappingInc(@)]
                            ELSE [proposals EXCEPT ![proposal_id].no_votes =
                                                        WrappingInc(@)]
                       /\ lastCall' = [op |-> "vote", voter |-> voter,
                                       proposal_id |-> proposal_id,
                                       vote_type |-> vote_type, outcome |-> "Ok"]
                       /\ vote_ok_count' = [vote_ok_count EXCEPT ![proposal_id] = @ + 1]
                       /\ UNCHANGED panicked
    /\ UNCHANGED <<next_proposal_id, overflow_checks, create_log, finalize_ok_count>>

\* Decide with a tie approved
Decide_TieApproves(yes_votes, no_votes) ==
    IF yes_votes >= no_votes THEN Approved ELSE Rejected

\* the decision of finalize_proposal (lines 101-105)
Decide(yes_votes, no_votes) ==
    IF yes_votes > no_votes THEN Approved ELSE Rejected

\* finalize_proposal deciding on the vote records of the proposal in the
\* votes map instead of its two counters
finalize_proposal_CountsRecords(proposal_id) ==
    /\ ~panicked
    /\ IF proposal_id \in DOMAIN proposals
       THEN IF proposals[proposal_id].status # Active
            THEN /\ lastCall' = [op |-> "finalize_proposal",
                                 proposal_id |-> proposal_id,
                                 outcome |-> "Err", err |-> ProposalNotActive]
                 /\ UNCHANGED <<proposals, finalize_ok_count>>
            ELSE /\ proposals' = [proposals EXCEPT ![proposal_id].status =
                      Decide(Cardinality({v \in Accounts :
                                 /\ <<v, proposal_id>> \in DOMAIN votes
                                 /\ votes[<<v, proposal_id>>]}),
                             Cardinality({v \in Accounts :
                                 /\ <<v, proposal_id>> \in DOMAIN votes
                                 /\ ~votes[<<v, proposal_id>>]}))]
                 /\ lastCall' = [op |-> "finalize_proposal",
                                 proposal_id |-> proposal_id, outcome |-> "Ok",
                                 status |-> proposals'[proposal_id].status]
                 /\ finalize_ok_count' = [finalize_ok_count EXCEPT ![proposal_id] = @ + 1]
       ELSE /\ lastCall' = [op |-> "finalize_proposal", proposal_id |-> proposal_id,
                            outcome |-> "Err", err |-> ProposalNotFound]
            /\ UNCHANGED <<proposals, finalize_ok_count>>
    /\ UNCHANGED <<votes, next_proposal_id, overflow_checks, panicked,
                   create_log, vote_ok_count>>

finalize_proposal(proposal_id) ==
    /\ ~panicked
    /\ IF proposal_id \in DOMAIN proposals
       THEN IF proposals[proposal_id].status # Active
            THEN /\ lastCall' = [op |-> "finalize_proposal",
                                 proposal_id |-> proposal_id,
                                 outcome |-> "Err", err |-> ProposalNotActive]
                 /\ UNCHANGED <<proposals, finalize_ok_count>>
            ELSE /\ proposals' = [proposals EXCEPT ![proposal_id].status =
                                     Decide(proposals[proposal_id].yes_votes,
                                            proposals[proposal_id].no_votes)]
                 /\ lastCall' = [op |-> "finalize_proposal",
                                 proposal_id |-> proposal_id, outcome |-> "Ok",
                                 status |-> proposals'[proposal_id].status]
                 /\ finalize_ok_count' = [finalize_ok_count EXCEPT ![proposal_id] = @ + 1]
       ELSE /\ lastCall' = [op |-> "finalize_proposal", proposal_id |-> proposal_id,
                            outcome |-> "Err", err |-> ProposalNotFound]
            /\ UNCHANGED <<proposals, finalize_ok_count>>
    /\ UNCHANGED <<votes, next_proposal_id, overflow_checks, panicked,
                   create_log, vote_ok_count>>

\* get_proposal looking the id up with an inserting lookup (entry().or_insert)
\* instead of HashMap::get: an absent id gets an empty Active proposal
get_proposal_InsertsDefault(proposal_id) ==
    /\ ~panicked
    /\ proposals' = IF proposal_id \in DOMAIN proposals
                    THEN proposals
                    ELSE MapInsert(proposals, proposal_id, NewProposal(alice, ""))
    /\ lastCall' = [op |-> "get_proposal", proposal_id |-> proposal_id,
                    outcome |-> "Some", proposal |-> proposals'[proposal_id]]
    /\ UNCHANGED <<votes, next_proposal_id, overflow_checks, panicked,
                   create_log, vote_ok_count, finalize_ok_count>>

get_proposal(proposal_id) ==
    /\ ~panicked
    /\ lastCall' = IF proposal_id \in DOMAIN proposals
                   THEN [op |-> "get_proposal", proposal_id |-> proposal_id,
                         outcome |-> "Some", proposal |-> proposals[proposal_id]]
                   ELSE [op |-> "get_proposal", proposal_id |-> proposal_id,
                         outcome |-> "None"]
    /\ UNCHANGED <<proposals, votes, next_proposal_id, overflow_checks, panicked,
                   create_log, vote_ok_count, finalize_ok_count>>

\* get_proposal_details reporting an absent proposal as not active
get_proposal_details_WrongError(proposal_id) ==
    /\ ~panicked
    /\ lastCall' = IF proposal_id \in DOMAIN proposals
                   THEN [op |-> "get_proposal_details", proposal_id |-> proposal_id,
                         outcome |-> "Ok",
                         description |-> proposals[proposal_id].description,
                         creator |-> proposals[proposal_id].creator]
                   ELSE [op |-> "get_proposal_details", proposal_id |-> proposal_id,
                         outcome |-> "Err", err |-> ProposalNotActive]
    /\ UNCHANGED <<proposals, votes, next_proposal_id, overflow_checks, panicked,
                   create_log, vote_ok_count, finalize_ok_count>>

get_proposal_details(proposal_id) ==
    /\ ~panicked
    /\ lastCall' = IF proposal_id \in DOMAIN proposals
                   THEN [op |-> "get_proposal_details", proposal_id |-> proposal_id,
                         outcome |-> "Ok",
                         description |-> proposals[proposal_id].description,
                         creator |-> proposals[proposal_id].creator]
                   ELSE [op |-> "get_proposal_details", proposal_id |-> proposal_id,
                         outcome |-> "Err", err |-> ProposalNotFound]
    /\ UNCHANGED <<proposals, votes, next_proposal_id, overflow_checks, panicked,
                   create_log, vote_ok_count, finalize_ok_count>>

Next ==
    \/ \E a \in Accounts, d \in Descriptions : create_proposal(a, d)
    \/ \E v \in Accounts, p \in U32, c \in BOOLEAN : vote(v, p, c)
    \/ \E p \in U32 : finalize_proposal(p)
    \/ \E p \in U32 : get_proposal(p)
    \/ \E p \in U32 : get_proposal_details(p)

Spec == Init /\ [][Next]_vars

TypeOK ==
    /\ DOMAIN proposals \subseteq U32
    /\ \A p \in DOMAIN proposals :
          /\ proposals[p].yes_votes \in U32
          /\ proposals[p].no_votes \in U32
          /\ proposals[p].status \in ProposalStatus
          /\ proposals[p].creator \in Accounts
          /\ proposals[p].description \in Descriptions
    /\ DOMAIN votes \subseteq Accounts \X U32
    /\ \A k \in DOMAIN votes : votes[k] \in BOOLEAN
    /\ next_proposal_id \in U32

\* ---- the calls a step makes, read from lastCall' ------------------------
VoteCalled(v, p) ==
    /\ lastCall'.op = "vote"
    /\ lastCall'.voter = v
    /\ lastCall'.proposal_id = p

FinalizeCalled(p) ==
    /\ lastCall'.op = "finalize_proposal"
    /\ lastCall'.proposal_id = p

CreateCalled == lastCall'.op = "create_proposal"

Failed(call, error) == call.outcome = "Err" /\ call.err = error

\* a vote record for (v, p) exists: vote(v, p, _) has returned Ok before
\* (or has panicked on the counter, after which no call is made)
HasVoted(v, p) == <<v, p>> \in DOMAIN votes

\* finalize_proposal(p) has returned Ok before
Finalized(p) == finalize_ok_count[p] > 0

Range(s) == {s[i] : i \in DOMAIN s}

\* ---- C1 -----------------------------------------------------------------
\* C1: a vote record (v, p), once inserted, is never removed and never
\* changes its boolean value, whatever operation is executed (votes is a map,
\* so each (v, p) has at most one record).
C1_VoteRecordsImmutable ==
    [][\A k \in DOMAIN votes : k \in DOMAIN votes' /\ votes'[k] = votes[k]]_vars

\* a second vote of the same voter with the opposite choice was made and
\* rejected, the record keeping the first choice
C1_Witness ==
    /\ lastCall.op = "vote"
    /\ Failed(lastCall, AlreadyVoted)
    /\ <<lastCall.voter, lastCall.proposal_id>> \in DOMAIN votes
    /\ votes[<<lastCall.voter, lastCall.proposal_id>>] # lastCall.vote_type

\* ---- C2 -----------------------------------------------------------------
\* C2 as stated: once vote(v, p, _) has succeeded, every later vote(v, p, c)
\* fails with AlreadyVoted, whatever was executed in between.
C2_Original ==
    [][\A v \in Accounts, p \in U32 :
          (HasVoted(v, p) /\ VoteCalled(v, p))
             => Failed(lastCall', AlreadyVoted)]_vars

\* C2 amended: once vote(v, p, _) has succeeded, every later vote(v, p, c)
\* fails, for either c: with AlreadyVoted while p is Active and with
\* ProposalNotActive once p is no longer Active.
C2_SecondVoteFails ==
    [][\A v \in Accounts, p \in U32 :
          (HasVoted(v, p) /\ VoteCalled(v, p))
             => /\ p \in DOMAIN proposals
                /\ IF proposals[p].status = Active
                   THEN Failed(lastCall', AlreadyVoted)
                   ELSE Failed(lastCall', ProposalNotActive)]_vars

\* a voter who voted on p votes again, with the other choice, after p was
\* finalized
C2_Witness ==
    /\ lastCall.op = "vote"
    /\ lastCall.outcome = "Err"
    /\ HasVoted(lastCall.voter, lastCall.proposal_id)
    /\ votes[<<lastCall.voter, lastCall.proposal_id>>] # lastCall.vote_type
    /\ Finalized(lastCall.proposal_id)

\* ---- C3 -----------------------------------------------------------------
\* C3: for every proposal p, yes_votes + no_votes equals the number of vote
\* calls on p that returned Ok, and a successful vote raises the counter of
\* its choice by exactly 1 and leaves the other counter unchanged.
C3_Tally ==
    /\ [](\A p \in DOMAIN proposals :
             proposals[p].yes_votes + proposals[p].no_votes = vote_ok_count[p])
    /\ [][\A v \in Accounts, p \in U32 :
             (VoteCalled(v, p) /\ lastCall'.outcome = "Ok")
                => /\ proposals'[p].yes_votes = proposals[p].yes_votes
                         + (IF lastCall'.vote_type THEN 1 ELSE 0)
                   /\ proposals'[p].no_votes = proposals[p].no_votes
                         + (IF lastCall'.vote_type THEN 0 ELSE 1)]_vars

\* ---- C4 -----------------------------------------------------------------
\* C4: finalize_proposal(p) on an Active proposal returns Ok with Approved
\* when yes_votes > no_votes and with Rejected otherwise; the stored status
\* afterwards is the returned one and neither is Active.
C4_FinalizeDecision ==
    [][\A p \in U32 :
          (/\ FinalizeCalled(p)
           /\ p \in DOMAIN proposals
           /\ proposals[p].status = Active)
             => /\ lastCall'.outcome = "Ok"
                /\ lastCall'.status =
                      (IF proposals[p].yes_votes > proposals[p].no_votes
                       THEN Approved ELSE Rejected)
                /\ proposals'[p].status = lastCall'.status
                /\ lastCall'.status # Active]_vars

\* a proposal with one yes and one no vote was finalized as Rejected
C4_Witness ==
    /\ lastCall.op = "finalize_proposal"
    /\ lastCall.outcome = "Ok"
    /\ lastCall.status = Rejected
    /\ proposals[lastCall.proposal_id].yes_votes = 1
    /\ proposals[lastCall.proposal_id].no_votes = 1

\* ---- C5 -----------------------------------------------------------------
\* C5: a proposal starts Active; its status changes only from Active to
\* Approved or Rejected, and an Approved or Rejected proposal keeps its
\* status for ever.
C5_StatusTransitions ==
    [][\A p \in U32 :
          /\ (p \notin DOMAIN proposals /\ p \in DOMAIN proposals')
                => proposals'[p].status = Active
          /\ p \in DOMAIN proposals
                => /\ p \in DOMAIN proposals'
                   /\ proposals'[p].status # proposals[p].status
                         => /\ proposals[p].status = Active
                            /\ proposals'[p].status \in {Approved, Rejected}]_vars

\* ---- C6 -----------------------------------------------------------------
\* C6: once finalize_proposal(p) has succeeded, every vote on p fails with
\* ProposalNotActive and the two counters of p never change again.
C6_PostFinalization ==
    [][\A p \in U32 :
          Finalized(p)
             => /\ \A v \in Accounts :
                      VoteCalled(v, p) => Failed(lastCall', ProposalNotActive)
                /\ proposals'[p].yes_votes = proposals[p].yes_votes
                /\ proposals'[p].no_votes = proposals[p].no_votes]_vars

\* ---- C7 -----------------------------------------------------------------
\* C7: at most one finalize_proposal(p) call succeeds: the first call on the
\* Active proposal succeeds, every later one fails with ProposalNotActive
\* and leaves the status unchanged.
C7_FinalizeOnce ==
    /\ [](\A p \in U32 : finalize_ok_count[p] <= 1)
    /\ [][\A p \in U32 :
             (FinalizeCalled(p) /\ p \in DOMAIN proposals)
                => IF Finalized(p)
                   THEN /\ Failed(lastCall', ProposalNotActive)
                        /\ proposals'[p].status = proposals[p].status
                   ELSE lastCall'.outcome = "Ok"]_vars

\* ---- C8 -----------------------------------------------------------------
\* C8: the k-th create_proposal call returns id k-1, so the ids returned are
\* strictly increasing and pairwise distinct.
C8_KthCreateReturnsKMinus1 ==
    /\ \A k \in 1 .. Len(create_log) : create_log[k] = k - 1
    /\ lastCall.op = "create_proposal" => lastCall.outcome = "Ok"

\* ---- C9 -----------------------------------------------------------------
\* C9: with next_proposal_id of bounded width, every create_proposal call
\* succeeds, returns an id no earlier call returned and overwrites no
\* existing proposal, also when the counter has reached its maximum.
C9_CreateNeverReuses ==
    [][CreateCalled
          => /\ lastCall'.outcome = "Ok"
             /\ lastCall'.id \notin Range(create_log)
             /\ lastCall'.id \notin DOMAIN proposals]_vars

\* ---- C10 ----------------------------------------------------------------
\* C10: vote reports the first failing check in the order existence, status,
\* duplicate: ProposalNotFound for an unknown id, ProposalNotActive for a
\* non-Active proposal also when the voter has a record on it, AlreadyVoted
\* only for an existing Active proposal.
C10_VoteCheckOrder ==
    [][\A v \in Accounts, p \in U32 :
          VoteCalled(v, p)
             => /\ p \notin DOMAIN proposals
                      => Failed(lastCall', ProposalNotFound)
                /\ (p \in DOMAIN proposals /\ proposals[p].status # Active)
                      => Failed(lastCall', ProposalNotActive)
                /\ Failed(lastCall', AlreadyVoted)
                      => /\ p \in DOMAIN proposals
                         /\ proposals[p].status = Active
                         /\ HasVoted(v, p)]_vars

\* a voter with a record on a finalized proposal voted again and was told
\* that the proposal is not active
C10_Witness ==
    /\ lastCall.op = "vote"
    /\ Failed(lastCall, ProposalNotActive)
    /\ HasVoted(lastCall.voter, lastCall.proposal_id)
    /\ proposals[lastCall.proposal_id].status # Active

\* ---- C11 ----------------------------------------------------------------
\* C11: a vote or finalize_proposal call that returns an error leaves the
\* proposals map, the votes map and next_proposal_id as they were.
C11_ErrorsChangeNothing ==
    [][(/\ lastCall'.op \in {"vote", "finalize_proposal"}
        /\ lastCall'.outcome = "Err")
          => /\ proposals' = proposals
             /\ votes' = votes
             /\ next_proposal_id' = next_proposal_id]_vars

\* a vote by a voter without record was refused on a finalized proposal
\* that carries votes
C11_Witness ==
    /\ lastCall.op = "vote"
    /\ Failed(lastCall, ProposalNotActive)
    /\ ~HasVoted(lastCall.voter, lastCall.proposal_id)
    /\ vote_ok_count[lastCall.proposal_id] > 0

GetCalled(p) ==
    /\ lastCall'.op = "get_proposal"
    /\ lastCall'.proposal_id = p

DetailsCalled(p) ==
    /\ lastCall'.op = "get_proposal_details"
    /\ lastCall'.proposal_id = p

\* ---- C12 ----------------------------------------------------------------
\* C12: for an id that no create_proposal call has returned, vote,
\* finalize_proposal and get_proposal_details fail with ProposalNotFound,
\* get_proposal returns nothing, and none of them creates a proposal entry
\* or a vote record for the id.
C12_UnknownId ==
    [][\A p \in U32 :
          p \notin Range(create_log)
             => /\ \A v \in Accounts :
                      VoteCalled(v, p) => Failed(lastCall', ProposalNotFound)
                /\ FinalizeCalled(p) => Failed(lastCall', ProposalNotFound)
                /\ DetailsCalled(p) => Failed(lastCall', ProposalNotFound)
                /\ GetCalled(p) => lastCall'.outcome = "None"
                /\ (\/ \E v \in Accounts : VoteCalled(v, p)
                    \/ FinalizeCalled(p)
                    \/ DetailsCalled(p)
                    \/ GetCalled(p))
                      => /\ p \notin DOMAIN proposals'
                         /\ \A v \in Accounts : <<v, p>> \notin DOMAIN votes']_vars

\* get_proposal_details failed on an id never handed out while another
\* proposal exists
C12_Witness ==
    /\ lastCall.op = "get_proposal_details"
    /\ Failed(lastCall, ProposalNotFound)
    /\ lastCall.proposal_id \notin Range(create_log)
    /\ create_log # <<>>

\* ---- C13 ----------------------------------------------------------------
\* C13: create_proposal(creator, description) stores under the returned id a
\* proposal with both counters 0, status Active and the given creator and
\* description, and no voter has a vote record on the new proposal (so every
\* account can still vote on it).
C13_FreshProposal ==
    [][(CreateCalled /\ lastCall'.outcome = "Ok")
          => /\ lastCall'.id \in DOMAIN proposals'
             /\ proposals'[lastCall'.id] =
                   [description |-> lastCall'.description, yes_votes |-> 0,
                    no_votes |-> 0, status |-> Active,
                    creator |-> lastCall'.creator]
             /\ \A v \in Accounts : <<v, lastCall'.id>> \notin DOMAIN votes']_vars

\* ---- C14 ----------------------------------------------------------------
\* C14: the description and the creator stored for a proposal by the
\* create_proposal call that returned its id never change, and
\* get_proposal_details(p) succeeds and returns exactly them.
C14_DetailsImmutable ==
    [][\A p \in DOMAIN proposals :
          /\ p \in DOMAIN proposals'
          /\ proposals'[p].description = proposals[p].description
          /\ proposals'[p].creator = proposals[p].creator
          /\ DetailsCalled(p)
                => /\ lastCall'.outcome = "Ok"
                   /\ lastCall'.description = proposals[p].description
                   /\ lastCall'.creator = proposals[p].creator]_vars

\* ---- C15 ----------------------------------------------------------------
\* C15: get_proposal and get_proposal_details, for a present or an absent
\* id, leave proposals, votes and next_proposal_id unchanged (and do not
\* panic), so a query changes the result of no other operation.
C15_QueriesReadOnly ==
    [][lastCall'.op \in {"get_proposal", "get_proposal_details"}
          => /\ proposals' = proposals
             /\ votes' = votes
             /\ next_proposal_id' = next_proposal_id
             /\ panicked' = panicked]_vars

\* get_proposal returned the stored view of a proposal that carries a vote
C15_Witness ==
    /\ lastCall.op = "get_proposal"
    /\ lastCall.outcome = "Some"
    /\ lastCall.proposal = proposals[lastCall.proposal_id]
    /\ lastCall.proposal.yes_votes = 1

\* ---- C16 ----------------------------------------------------------------
\* C16: the status finalize_proposal(p) returns depends only on the two
\* counters of p: whenever another proposal q was finalized with the same
\* two counters (its entry still shows them, a finalized proposal takes no
\* votes), p gets the status q got, whatever the creators, descriptions,
\* voters and vote order of the two and the state of the rest.
C16_SameCountersSameStatus ==
    [][\A p \in U32, q \in DOMAIN proposals :
          (/\ FinalizeCalled(p)
           /\ lastCall'.outcome = "Ok"
           /\ q # p
           /\ proposals[q].status # Active
           /\ proposals[q].yes_votes = proposals[p].yes_votes
           /\ proposals[q].no_votes = proposals[p].no_votes)
             => lastCall'.status = proposals[q].status]_vars

\* two proposals of different creators and descriptions, voted on by
\* different accounts, were finalized with the same counters 1-0
C16_Witness ==
    /\ lastCall.op = "finalize_proposal"
    /\ lastCall.outcome = "Ok"
    /\ \E q \in DOMAIN proposals :
          LET p == lastCall.proposal_id
          IN /\ q # p
             /\ proposals[q].status = lastCall.status
             /\ proposals[q].yes_votes = 1 /\ proposals[p].yes_votes = 1
             /\ proposals[q].no_votes = 0 /\ proposals[p].no_votes = 0
             /\ proposals[q].creator # proposals[p].creator
             /\ proposals[q].description # proposals[p].description
             /\ \E v \in Accounts : HasVoted(v, p) /\ ~HasVoted(v, q)

\* ---- C17 ----------------------------------------------------------------
\* C17: with every call of every caller executed as one atomic step, each
\* interleaving of create_proposal, vote and finalize_proposal calls keeps
\* the ids returned pairwise distinct, counts each voter at most once per
\* proposal and finalizes each proposal successfully at most once.
C17_InterleavingsKeepInvariants ==
    /\ [](\A i, j \in 1 .. Len(create_log) :
             i # j => create_log[i] # create_log[j])
    /\ [](\A p \in U32 : finalize_ok_count[p] <= 1)
    /\ [][\A v \in Accounts, p \in U32 :
             (VoteCalled(v, p) /\ lastCall'.outcome = "Ok") => ~HasVoted(v, p)]_vars

\* ---- C18 ----------------------------------------------------------------
\* C18: a successful vote(v, p, c) changes one counter of p and adds the
\* record (v, p) and nothing else; a successful finalize_proposal(p) changes
\* the status of p and nothing else; create_proposal leaves every existing
\* proposal and the votes map unchanged; no operation deletes a proposal.
C18_Frames ==
    [][/\ DOMAIN proposals \subseteq DOMAIN proposals'
       /\ \A v \in Accounts, p \in U32 :
             (VoteCalled(v, p) /\ lastCall'.outcome = "Ok")
                => /\ proposals' =
                         IF lastCall'.vote_type
                         THEN [proposals EXCEPT ![p].yes_votes =
                                                     proposals'[p].yes_votes]
                         ELSE [proposals EXCEPT ![p].no_votes =
                                                     proposals'[p].no_votes]
                   /\ proposals'[p] # proposals[p]
                   /\ votes' = MapInsert(votes, <<v, p>>, lastCall'.vote_type)
                   /\ \A k \in DOMAIN votes : votes'[k] = votes[k]
                   /\ next_proposal_id' = next_proposal_id
       /\ \A p \in U32 :
             (FinalizeCalled(p) /\ lastCall'.outcome = "Ok")
                => /\ proposals' = [proposals EXCEPT ![p].status =
                                                         proposals'[p].status]
                   /\ votes' = votes
                   /\ next_proposal_id' = next_proposal_id
       /\ CreateCalled
             => /\ \A q \in DOMAIN proposals : proposals'[q] = proposals[q]
                /\ votes' = votes]_vars

\* ---- C19 ----------------------------------------------------------------
\* C19: vote(v, p, c) succeeds exactly when p exists, is Active and has no
\* record of v (also when v created p); finalize_proposal(p) succeeds
\* exactly when p exists and is Active.
C19_SuccessConditions ==
    [][/\ \A v \in Accounts, p \in U32 :
             VoteCalled(v, p)
                => (lastCall'.outcome = "Ok"
                      <=> /\ p \in DOMAIN proposals
                          /\ proposals[p].status = Active
                          /\ ~HasVoted(v, p))
       /\ \A p \in U32 :
             FinalizeCalled(p)
                => (lastCall'.outcome = "Ok"
                      <=> /\ p \in DOMAIN proposals
                          /\ proposals[p].status = Active)]_vars

\* ---- C20 ----------------------------------------------------------------
\* C20: every vote record refers to an existing proposal, and for every
\* proposal yes_votes is the number of its records with value true and
\* no_votes the number of its records with value false.
C20_VotesMatchCounters ==
    /\ \A k \in DOMAIN votes : k[2] \in DOMAIN proposals
    /\ \A p \in DOMAIN proposals :
          /\ proposals[p].yes_votes =
                Cardinality({k \in DOMAIN votes : k[2] = p /\ votes[k]})
          /\ proposals[p].no_votes =
                Cardinality({k \in DOMAIN votes : k[2] = p /\ ~votes[k]})
====
